---- MODULE Spec2Model ----
(***************************************************************************)
(* umi-checker: the matching engine (src/src/matcher.rs), the UMI          *)
(* extractor (src/src/lib.rs) and the batch pipeline                       *)
(* (src/src/processing.rs, src/src/io.rs).                                 *)
(*                                                                         *)
(* Byte sequences are sequences of integers 0..255.  A u64 is the tuple    *)
(* of its 8 byte lanes (each 0..255), lane 1 the least significant byte    *)
(* (u64::from_ne_bytes on a little-endian target), so that the 64-bit      *)
(* operations keep their width: borrows and carries travel from lane i to  *)
(* lane i+1 and are dropped after lane 8.                                  *)
(***************************************************************************)
EXTENDS Integers, Sequences, FiniteSets, TLC

VARIABLES
    \* hamming_distance(seq1, seq2) call
    seq1, seq2, distance,
    \* is_umi_in_read(umi, read, max_mismatches) call
    umi, read, max_mismatches, found,
    \* position of the matcher call: "idle", "returned"
    mpc,
    \* arguments of process_fastq / process_bam and the input file
    format, input_kind, kept_out, rem_out, max_m, umi_len, batch_size,
    \* the records the reader has produced so far, in order
    consumed,
    \* locals of process_fastq / process_bam
    stats, batch, kept_w, rem_w, final,
    \* locals of process_batch
    results, widx, removed, kept,
    \* records handed to each writer, and the artifacts on disk
    kept_sink, rem_sink, kept_file, rem_file,
    \* bytes in the buffer of each plain FASTQ writer
    kept_buf, rem_buf,
    \* a write at the drop of a writer has failed (the code discards it)
    drop_error,
    \* position of the run
    pc,
    \* a write_to call has returned Err
    write_error,
    \* main.rs: Args::input, Args::output (the prefix, <<>> when absent)
    args_input, args_output,
    \* locals of run: the input's FileType and the two output paths
    file_type, clean_output, removed_output,
    \* the fields of the summary line run returns, <<>> before it is built
    summary,
    \* position of the path construction of run
    cpc

matcher_vars == <<seq1, seq2, distance, umi, read, max_mismatches, found, mpc>>

args_vars == <<format, input_kind, kept_out, rem_out, max_m, umi_len, batch_size>>

run_vars == <<consumed, stats, batch, kept_w, rem_w, final, results, widx, removed,
              kept, kept_sink, rem_sink, kept_file, rem_file, kept_buf, rem_buf,
              drop_error, pc, write_error>>

cli_vars == <<args_input, args_output, file_type, clean_output, removed_output,
              summary, cpc>>

vars == <<matcher_vars, args_vars, run_vars, cli_vars>>

(***************************************************************************)
(* Bytes                                                                   *)
(***************************************************************************)
ByteOf == [A |-> 65, C |-> 67, G |-> 71, T |-> 84, N |-> 78, O |-> 79,
           n |-> 110, a |-> 97, c |-> 99, r |-> 114, I |-> 73,
           colon |-> 58, underscore |-> 95, space |-> 32, invalid |-> 255]

RECURSIVE BitAnd(_, _)
BitAnd(x, y) ==
    IF x = 0 \/ y = 0 THEN 0
    ELSE (x % 2) * (y % 2) + 2 * BitAnd(x \div 2, y \div 2)

RECURSIVE BitOr(_, _)
BitOr(x, y) ==
    IF x = 0 THEN y
    ELSE IF y = 0 THEN x
    ELSE (IF x % 2 = 1 \/ y % 2 = 1 THEN 1 ELSE 0) + 2 * BitOr(x \div 2, y \div 2)

RECURSIVE BitXor(_, _)
BitXor(x, y) ==
    IF x = 0 THEN y
    ELSE IF y = 0 THEN x
    ELSE ((x + y) % 2) + 2 * BitXor(x \div 2, y \div 2)

BitNot(x) == 255 - x

Lanes == 1..8

\* A u64 built lane by lane.
Word(f) == <<f[1], f[2], f[3], f[4], f[5], f[6], f[7], f[8]>>

Splat(b) == Word([i \in Lanes |-> b])

And64(x, y) == Word([i \in Lanes |-> BitAnd(x[i], y[i])])
Or64(x, y) == Word([i \in Lanes |-> BitOr(x[i], y[i])])
Xor64(x, y) == Word([i \in Lanes |-> BitXor(x[i], y[i])])
Not64(x) == Word([i \in Lanes |-> BitNot(x[i])])

\* x >> k for 0 < k < 8: the low k bits of lane i+1 enter lane i from above.
RECURSIVE Pow2(_)
Pow2(k) == IF k = 0 THEN 1 ELSE 2 * Pow2(k - 1)

Shr64(x, k) ==
    Word([i \in Lanes |->
        (x[i] \div Pow2(k))
        + (IF i < 8 THEN (x[i + 1] % Pow2(k)) * Pow2(8 - k) ELSE 0)])

\* x.wrapping_sub(y): the borrow out of lane i is taken from lane i+1.
RECURSIVE BorrowInto(_, _, _)
BorrowInto(x, y, i) ==
    IF i = 1 THEN 0
    ELSE IF x[i - 1] - y[i - 1] - BorrowInto(x, y, i - 1) < 0 THEN 1 ELSE 0

WrappingSub64(x, y) ==
    Word([i \in Lanes |-> (256 + x[i] - y[i] - BorrowInto(x, y, i)) % 256])

\* x.wrapping_mul(0x0101010101010101) = sum over k of (x << 8k), modulo 2^64.
RECURSIVE MulColumn(_, _)
MulColumn(x, i) ==
    IF i = 0 THEN 0
    ELSE x[i] + MulColumn(x, i - 1)

RECURSIVE CarryInto(_, _)
CarryInto(x, i) ==
    IF i = 1 THEN 0
    ELSE (MulColumn(x, i - 1) + CarryInto(x, i - 1)) \div 256

WrappingMulOnes64(x) ==
    Word([i \in Lanes |-> (MulColumn(x, i) + CarryInto(x, i)) % 256])

\* u64::from_ne_bytes(s) for the eight bytes s[from .. from+7].
from_ne_bytes(s, from) == Word([i \in Lanes |-> s[from + i - 1]])

(***************************************************************************)
(* matcher.rs                                                              *)
(***************************************************************************)
\* Sum of the bytes of the top lane after the horizontal sum (>> 56).
count_nonzero_bytes(x) ==
    LET x1 == Or64(x, Shr64(x, 4))
        x2 == Or64(x1, Shr64(x1, 2))
        x3 == Or64(x2, Shr64(x2, 1))
        x4 == And64(x3, Splat(1))
    IN  WrappingMulOnes64(x4)[8]

is_n_mask(x) ==
    LET diff == Xor64(x, Splat(ByteOf.N))
    IN  And64(And64(WrappingSub64(diff, Splat(1)), Not64(diff)), Splat(128))

\* The closure of the 8-byte block map: one block starting at index from.
block_distance(s1, s2, from) ==
    LET c1 == from_ne_bytes(s1, from)
        c2 == from_ne_bytes(s2, from)
        diff == Xor64(c1, c2)
        n_present == Or64(is_n_mask(c1), is_n_mask(c2))
    IN  count_nonzero_bytes(Or64(diff, n_present))

\* The remainder loop over positions from..Len(s1), one byte at a time.
RECURSIVE tail_distance(_, _, _)
tail_distance(s1, s2, from) ==
    IF from > Len(s1) THEN 0
    ELSE (IF s1[from] # s2[from] \/ s1[from] = ByteOf.N \/ s2[from] = ByteOf.N
          THEN 1 ELSE 0)
         + tail_distance(s1, s2, from + 1)

RECURSIVE blocks_distance(_, _, _)
blocks_distance(s1, s2, nblocks) ==
    IF nblocks = 0 THEN 0
    ELSE blocks_distance(s1, s2, nblocks - 1)
         + block_distance(s1, s2, 8 * (nblocks - 1) + 1)

\* Defined for Len(s1) = Len(s2); unequal lengths fail the assert_eq.
hamming_distance(s1, s2) ==
    LET nblocks == Len(s1) \div 8
    IN  blocks_distance(s1, s2, nblocks) + tail_distance(s1, s2, 8 * nblocks + 1)

\* read.windows(umi_len): the window starting at index w (1-based).
window(r, w, len) == SubSeq(r, w, w + len - 1)

\* Mutant: the last chunk does not absorb the remainder.
get_chunk_range_no_remainder(chunk_idx, chunk_size, num_chunks, ulen) ==
    <<chunk_idx * chunk_size, (chunk_idx + 1) * chunk_size>>

get_chunk_range(chunk_idx, chunk_size, num_chunks, ulen) ==
    LET start == chunk_idx * chunk_size
        end == IF chunk_idx = num_chunks - 1 THEN ulen
               ELSE (chunk_idx + 1) * chunk_size
    IN  <<start, end>>

\* Half-open range [start, end) of 0-based indices, as umi[start..end].
slice(s, start, end) == SubSeq(s, start + 1, end)

has_matching_chunk(u, win, chunk_size, num_chunks) ==
    \E chunk_idx \in 0..(num_chunks - 1) :
        LET rng == get_chunk_range(chunk_idx, chunk_size, num_chunks, Len(u))
        IN  slice(u, rng[1], rng[2]) = slice(win, rng[1], rng[2])

\* read.windows(umi_len) panics when umi_len is zero; the length check above
\* it never returns first, since no read is shorter than an empty umi.
windows_panics(u, r) == Len(r) >= Len(u) /\ Len(u) = 0

\* The value returned when windows does not panic.
is_umi_in_read(u, r, mm) ==
    LET ulen == Len(u)
        rlen == Len(r)
        num_chunks == mm + 1
        starts == 1..(rlen - ulen + 1)
    IN  IF rlen < ulen THEN FALSE
        ELSE IF mm = 0 THEN
            \E w \in starts : window(r, w, ulen) = u
        ELSE IF ulen < num_chunks THEN
            \E w \in starts : hamming_distance(u, window(r, w, ulen)) <= mm
        ELSE
            LET chunk_size == ulen \div num_chunks
            IN  \E w \in starts :
                    /\ has_matching_chunk(u, window(r, w, ulen), chunk_size, num_chunks)
                    /\ hamming_distance(u, window(r, w, ulen)) <= mm

(***************************************************************************)
(* lib.rs: extract_umi_from_header                                         *)
(***************************************************************************)
\* Headers of the model hold ASCII bytes and 0xFF; 0xF5..0xFF occur in no
\* UTF-8 encoding, so std::str::from_utf8 fails on them.
from_utf8_ok(header) == \A i \in 1..Len(header) : header[i] < 128

is_whitespace(b) == b \in {9, 10, 11, 12, 13, 32}

RECURSIVE skip_whitespace(_, _)
skip_whitespace(s, i) ==
    IF i > Len(s) \/ ~is_whitespace(s[i]) THEN i ELSE skip_whitespace(s, i + 1)

RECURSIVE word_end(_, _)
word_end(s, i) ==
    IF i > Len(s) \/ is_whitespace(s[i]) THEN i ELSE word_end(s, i + 1)

\* split_whitespace().next(): <<>> stands for None (a word is never empty).
first_word(s) ==
    LET start == skip_whitespace(s, 1)
    IN  IF start > Len(s) THEN <<>> ELSE SubSeq(s, start, word_end(s, start) - 1)

\* rsplit([':', '_']).next(): the piece after the last delimiter, the whole
\* word when it has no delimiter; always Some.
last_piece(w) ==
    LET delims == {i \in 1..Len(w) : w[i] \in {ByteOf.colon, ByteOf.underscore}}
        last == CHOOSE i \in delims : \A j \in delims : j <= i
    IN  IF delims = {} THEN w ELSE SubSeq(w, last + 1, Len(w))

to_ascii_uppercase(s) ==
    [i \in 1..Len(s) |-> IF s[i] >= 97 /\ s[i] <= 122 THEN s[i] - 32 ELSE s[i]]

\* kind: "none" (None), "some" (Some(umi)) or "panic".
extract_umi_from_header(header, expected_length) ==
    IF ~from_utf8_ok(header) THEN [kind |-> "none", umi |-> <<>>]
    ELSE IF first_word(header) = <<>> THEN [kind |-> "none", umi |-> <<>>]
    ELSE LET umi_str == last_piece(first_word(header))
         IN  IF Len(umi_str) # expected_length
             THEN [kind |-> "panic", umi |-> <<>>]
             ELSE [kind |-> "some", umi |-> to_ascii_uppercase(umi_str)]

(***************************************************************************)
(* Bounds and inputs                                                       *)
(***************************************************************************)
MaxRecords == 3
MaxBatchSize == 3
MaxUmiLen == 3
MaxReadLen == 4
MaxVar == 2
MaxPad == 7
MaxSuffixes == 2
MediumReadLen == 2100
LongReadLen == 8192

\* The CLI rejects more than 3 mismatches.
MaxAllowedMismatches == 3

B == ByteOf

\* n times the byte b.
fill(b, n) == [i \in 1..n |-> b]

\* The record process_fastq builds from what the reader yields: a FASTQ
\* record has a quality string of the length of the sequence, a FASTA
\* record has none.
fastq_record(head, seq, has_qual) ==
    [head |-> head, seq |-> seq,
     qual |-> IF has_qual THEN <<fill(B.I, Len(seq))>> ELSE <<>>]

\* Records of the input stream, for an expected UMI length of 2: short
\* reads, a read of which two fill the writer's buffer, and a read longer
\* than the buffer; then FASTA records.
RecordPool ==
    << fastq_record(<<B.r, B.colon, B.A, B.C>>, <<B.G, B.A, B.C, B.G>>, TRUE),
      fastq_record(<<B.r, B.underscore, B.A, B.G>>, <<B.G, B.G, B.C, B.G>>, TRUE),
      fastq_record(<<B.invalid>>, fill(B.A, MediumReadLen), TRUE),
      fastq_record(<<>>, fill(B.A, LongReadLen), TRUE),
      fastq_record(<<B.A, B.C>>, <<B.A, B.C>>, TRUE),
      fastq_record(<<B.r, B.colon>>, <<B.A, B.C>>, TRUE),
      fastq_record(<<B.r, B.colon, B.A, B.C>>, <<B.G, B.A, B.C, B.G>>, FALSE),
      fastq_record(<<B.r, B.underscore, B.A, B.G>>, <<B.G, B.G, B.C, B.G>>, FALSE),
      fastq_record(<<>>, fill(B.A, LongReadLen), FALSE) >>

\* A record of the stream holds its position and refers to its bytes.
head_of(rec) == RecordPool[rec.data].head
seq_of(rec) == RecordPool[rec.data].seq
qual_of(rec) == RecordPool[rec.data].qual

PipelineUmiLens == {0, 2}

PipelineMismatches == {0, 1}

PipelineFormats == {"fastq", "fastq_gz", "bam"}

InputKinds(fmt) ==
    IF fmt = "bam"
    THEN {"open_error", "header_only", "records"}
    ELSE {"stat_error", "zero_byte", "parser_empty", "parse_error", "records",
          "fasta_records"}

\* The records a stream of the input can hold.  The long reads go to the
\* plain FASTQ writer, whose buffer they fill; the header without a
\* delimiter goes to the writers that compress.
StreamRecords(fmt, kind) ==
    IF kind = "fasta_records" THEN (IF fmt = "fastq" THEN {7, 8, 9} ELSE {7, 8})
    ELSE IF fmt = "fastq" THEN {1, 2, 3, 4, 6}
    ELSE {1, 2, 5, 6}

\* The input path of a run on each format.
InputPath(fmt) ==
    IF fmt = "fastq" THEN <<"d", "/", "x", ".", "f", "q">>
    ELSE IF fmt = "fastq_gz" THEN <<"x", ".", "f", "a", "s", "t", "q", ".", "g", "z">>
    ELSE <<"x", ".", "b", "a", "m">>

\* All sequences over S of length lo..hi.
SeqsOf(S, lo, hi) == UNION {[1..k -> S] : k \in lo..hi}

Fill(k) == [i \in 1..k |-> B.A]

\* Inputs of hamming_distance: two equal-length sequences that vary in a
\* window of up to MaxVar bytes placed anywhere in a run of filler bytes, so
\* that the window falls in a full word, in the tail, or across the two.
HammingAlphabet == {B.A, B.N, B.O, B.n}

HammingInputs ==
    UNION { [1..k -> HammingAlphabet] \X [1..k -> HammingAlphabet] : k \in 0..MaxVar }

\* Inputs of is_umi_in_read: every umi of 1..MaxUmiLen bases and every read
\* of 0..MaxReadLen bases.
UmiAlphabet == {B.A, B.C, B.N}

(***************************************************************************)
(* processing.rs, io.rs: the batch pipeline                                *)
(***************************************************************************)
\* An artifact on disk: the whole records it holds, and whether it ends in
\* a piece of a record (a write that was cut short).
AbsentFile == [exists |-> FALSE, records |-> <<>>, torn |-> FALSE]
CreatedFile == [exists |-> TRUE, records |-> <<>>, torn |-> FALSE]

\* Mutant: a token of the wrong length is treated as no UMI found.
classify_downgrading(rec, mm, ulen) ==
    LET e == extract_umi_from_header(head_of(rec), ulen)
    IN  IF e.kind = "some" /\ ~windows_panics(e.umi, seq_of(rec))
           /\ is_umi_in_read(e.umi, seq_of(rec), mm)
        THEN "matched" ELSE "unmatched"

\* The closure of the parallel map, for one record.
classify(rec, mm, ulen) ==
    LET e == extract_umi_from_header(head_of(rec), ulen)
    IN  IF e.kind = "panic" THEN "panic"
        ELSE IF e.kind = "some" THEN
            (IF windows_panics(e.umi, seq_of(rec)) THEN "panic"
             ELSE IF is_umi_in_read(e.umi, seq_of(rec), mm) THEN "matched"
             ELSE "unmatched")
        ELSE "unmatched"

\* BufWriter::new: the capacity of the writer's buffer, in bytes.
DEFAULT_BUF_SIZE == 8192

RECURSIVE sum_of(_)
sum_of(s) == IF s = <<>> THEN 0 ELSE Head(s) + sum_of(Tail(s))

\* write_fastq: the lengths of the slices handed to write_all, in order.
write_pieces(rec) ==
    <<1, Len(head_of(rec)), 1, Len(seq_of(rec)), 3>>
        \o (IF qual_of(rec) # <<>> THEN <<Len(qual_of(rec)[1])>> ELSE <<>>)
        \o <<1>>

record_bytes(rec) == sum_of(write_pieces(rec))

RECURSIVE stream_bytes(_)
stream_bytes(recs) ==
    IF recs = <<>> THEN 0 ELSE record_bytes(Head(recs)) + stream_bytes(Tail(recs))

\* The file holding the first d bytes of the records recs written one after
\* the other: its whole records, and whether a piece of the next follows.
as_file(recs, d) ==
    LET k == CHOOSE j \in 0..Len(recs) :
                 /\ stream_bytes(SubSeq(recs, 1, j)) <= d
                 /\ j < Len(recs) => stream_bytes(SubSeq(recs, 1, j + 1)) > d
    IN  [exists |-> TRUE, records |-> SubSeq(recs, 1, k),
         torn |-> d > stream_bytes(SubSeq(recs, 1, k))]

\* The files holding the first d bytes of recs, for lo <= d <= hi.
files_between(recs, lo, hi) ==
    { f \in { [exists |-> TRUE, records |-> SubSeq(recs, 1, k), torn |-> t] :
                  k \in 0..Len(recs), t \in BOOLEAN } :
        LET whole == stream_bytes(f.records)
            next == IF Len(f.records) < Len(recs)
                    THEN stream_bytes(SubSeq(recs, 1, Len(f.records) + 1))
                    ELSE whole
        IN  IF f.torn
            THEN (IF lo > whole + 1 THEN lo ELSE whole + 1)
                     <= (IF hi < next - 1 THEN hi ELSE next - 1)
            ELSE lo <= whole /\ whole <= hi }

\* BufWriter::write_all of n bytes with len bytes buffered: the bytes left
\* in the buffer, the bytes of the buffer flushed to the file first, and
\* the bytes written to the file past the buffer.
buf_write_all(len, n) ==
    IF n < DEFAULT_BUF_SIZE - len
    THEN [len |-> len + n, flush |-> 0, direct |-> 0]
    ELSE LET fl == IF n > DEFAULT_BUF_SIZE - len THEN len ELSE 0
         IN  IF n >= DEFAULT_BUF_SIZE
             THEN [len |-> len - fl, flush |-> fl, direct |-> n]
             ELSE [len |-> len - fl + n, flush |-> fl, direct |-> 0]

\* write_fastq from its i-th write_all on, every write returning Ok: the
\* bytes buffered and the bytes on disk afterwards.
RECURSIVE write_fastq(_, _, _, _)
write_fastq(pieces, i, len, disk) ==
    IF i > Len(pieces) THEN [len |-> len, disk |-> disk]
    ELSE LET r == buf_write_all(len, pieces[i])
         IN  write_fastq(pieces, i + 1, r.len, disk + r.flush + r.direct)

\* The writes of write_fastq that reach the file, each as the range of the
\* bytes on disk once that write has failed and the writer is dropped: a
\* failed flush leaves any part of the buffer (the drop flushes again), a
\* failed write past the buffer any part short of the whole slice.
RECURSIVE failure_ranges(_, _, _, _)
failure_ranges(pieces, i, len, disk) ==
    IF i > Len(pieces) THEN {}
    ELSE LET r == buf_write_all(len, pieces[i])
         IN  (IF r.flush > 0 THEN {<<disk, disk + r.flush>>} ELSE {})
             \cup (IF r.direct > 0
                   THEN {<<disk + r.flush, disk + r.flush + r.direct - 1>>}
                   ELSE {})
             \cup failure_ranges(pieces, i + 1, r.len, disk + r.flush + r.direct)

\* The file holding the records recs whole.
complete_file(recs) == [exists |-> TRUE, records |-> recs, torn |-> FALSE]

\* GzEncoder (io.rs:94) and bam::Writer compress what they accept and hand
\* it to the file in blocks of their own: the file holds no fewer whole
\* records than before and any number of the records accepted since, with
\* or without a piece of the next.
library_files(recs, file) ==
    { f \in [exists : {TRUE},
             records : {SubSeq(recs, 1, k) : k \in Len(file.records)..Len(recs)},
             torn : BOOLEAN] :
        /\ f.torn => Len(f.records) < Len(recs)
        /\ (f.records = file.records /\ file.torn) => f.torn }

\* The write of a record to a writer that is neither Fastq nor Bam: the
\* `if let` of write_fastq / write_bam does not match and Ok(()) is
\* returned.  GenericWriter::Sink, the variant process_fastq / process_bam
\* give a channel without a path, discards every write.
discard(len, file) == {[len |-> len, file |-> file]}

\* The encoder of a .gz output writes into the BufWriter of io.rs:92, which
\* writes to the file once it holds DEFAULT_BUF_SIZE bytes; the compressed
\* bytes are no more than the bytes accepted.
gz_may_reach_file(sink, rec) ==
    stream_bytes(sink) + record_bytes(rec) >= DEFAULT_BUF_SIZE

\* GenericWriter::write_fastq / write_bam returning Ok, on a writer that
\* accepted the records sink and buffers len bytes: the outcomes, each the
\* bytes buffered and the file afterwards.  A plain FASTQ writer is the
\* BufWriter; a .gz writer keeps what it accepted until its compressed
\* bytes fill the BufWriter; bam::Writer starts with a header of a length
\* the input decides, so that any record can complete a block.
write_to(w, sink, len, file, rec) ==
    IF w = "Fastq"
    THEN LET out == write_fastq(write_pieces(rec), 1, len, stream_bytes(sink) - len)
         IN  {[len |-> out.len, file |-> as_file(Append(sink, rec), out.disk)]}
    ELSE IF w = "FastqGz"
    THEN (IF gz_may_reach_file(sink, rec)
          THEN {[len |-> 0, file |-> f] : f \in library_files(Append(sink, rec), file)}
          ELSE {[len |-> 0, file |-> file]})
    ELSE IF w = "Bam"
    THEN {[len |-> 0, file |-> f] : f \in library_files(Append(sink, rec), file)}
    ELSE discard(len, file)

\* write_to can return Err when one of its writes reaches the file.
write_may_fail(w, sink, len, rec) ==
    IF w = "Fastq"
    THEN failure_ranges(write_pieces(rec), 1, len, stream_bytes(sink) - len) # {}
    ELSE IF w = "FastqGz" THEN gz_may_reach_file(sink, rec)
    ELSE w = "Bam"

\* The file after a write_to that returned Err and the drop of its writer;
\* the record of the failed write is not whole in it.
failed_write_outcomes(w, sink, len, file, rec) ==
    IF w = "Fastq"
    THEN UNION { files_between(Append(sink, rec), rg[1], rg[2]) :
                   rg \in failure_ranges(write_pieces(rec), 1, len,
                                         stream_bytes(sink) - len) }
    ELSE { f \in library_files(Append(sink, rec), file) :
             Len(f.records) <= Len(sink) }

\* The flush of the buffer at drop succeeding.
flushed(sink) == as_file(sink, stream_bytes(sink))

\* The flush of the buffer at drop failing part way.
lost_flushes(sink, len) ==
    files_between(sink, stream_bytes(sink) - len, stream_bytes(sink) - 1)

\* Drop of a writer, its result discarded: the file afterwards and whether
\* a write of the drop failed.  The BufWriter flushes its buffer; GzEncoder
\* and bam::Writer finish their stream, which writes to the file even when
\* no record was accepted.
drop_outcomes(w, sink, len, file) ==
    IF w = "Fastq"
    THEN (IF len = 0 THEN {[file |-> file, lost |-> FALSE]}
          ELSE {[file |-> flushed(sink), lost |-> FALSE]}
                   \cup {[file |-> f, lost |-> TRUE] : f \in lost_flushes(sink, len)})
    ELSE IF w \in {"FastqGz", "Bam"}
    THEN {[file |-> complete_file(sink), lost |-> FALSE]}
             \cup {[file |-> f, lost |-> TRUE] : f \in library_files(sink, file)}
    ELSE {[file |-> file, lost |-> FALSE]}

\* The writers go out of scope when process_fastq / process_bam returns or
\* unwinds.
drop_writers ==
    \E kd \in drop_outcomes(kept_w, kept_sink, kept_buf, kept_file),
       rd \in drop_outcomes(rem_w, rem_sink, rem_buf, rem_file) :
        /\ kept_file' = kd.file
        /\ rem_file' = rd.file
        /\ kept_buf' = 0
        /\ rem_buf' = 0
        /\ drop_error' = (drop_error \/ kd.lost \/ rd.lost)

\* Mutant: a channel without a path gets a writer of the format as well.
create_writer_without_sink(requested, fmt) ==
    IF fmt = "fastq" THEN "Fastq" ELSE IF fmt = "fastq_gz" THEN "FastqGz" ELSE "Bam"

\* kept_out / rem_out: Some(p) creates the file, None gives the Sink; the
\* FASTQ writer of a path ending in .gz is the encoder.
create_writer(requested, fmt) ==
    IF requested
    THEN (IF fmt = "fastq" THEN "Fastq" ELSE IF fmt = "fastq_gz" THEN "FastqGz" ELSE "Bam")
    ELSE "Sink"

\* File::create / bam::Writer::from_path: ok is whether the creation succeeds.
create_file(requested, ok, file) == IF requested /\ ok THEN CreatedFile ELSE file

\* The kept writer, then the removed writer; a failed creation returns Err,
\* the removed writer being created only after the kept one, and the kept
\* writer is dropped when the creation of the removed one fails.
open_writers ==
    \E kept_ok, rem_ok \in BOOLEAN :
        /\ kept_out \/ kept_ok
        /\ (rem_out /\ kept_ok) \/ rem_ok
        /\ rem_file' = IF kept_ok THEN create_file(rem_out, rem_ok, rem_file) ELSE rem_file
        /\ kept_w' = IF kept_ok THEN create_writer(kept_out, format) ELSE kept_w
        /\ rem_w' = IF kept_ok /\ rem_ok THEN create_writer(rem_out, format) ELSE rem_w
        /\ pc' = IF kept_ok /\ rem_ok THEN "read" ELSE "error"
        /\ IF kept_ok /\ ~rem_ok
           THEN \E kd \in drop_outcomes(create_writer(kept_out, format), <<>>, 0,
                                        create_file(kept_out, kept_ok, kept_file)) :
                    /\ kept_file' = kd.file
                    /\ drop_error' = (drop_error \/ kd.lost)
           ELSE /\ kept_file' = create_file(kept_out, kept_ok, kept_file)
                /\ UNCHANGED drop_error

\* Entry of process_batch on a non-empty batch: the parallel map starts.
enter_batch(b, is_final) ==
    /\ results' = [i \in 1..Len(b) |-> "pending"]
    /\ final' = is_final
    /\ pc' = "compute"

\* Mutant: the batch is dispatched one record late.
batch_is_full_late(b, size) == Len(b) > size

\* batch.len() >= BATCH_SIZE
batch_is_full(b, size) == Len(b) >= size

\* Mutant: the loop ends without the final flush.
final_flush_skipped(b) ==
    pc' = "done" /\ drop_writers /\ UNCHANGED <<results, final>>

\* The final flush: process_batch returns (0, 0) at once on an empty batch,
\* and process_fastq / process_bam returns Ok(stats).
final_flush(b) ==
    IF b = <<>>
    THEN pc' = "done" /\ drop_writers /\ UNCHANGED <<results, final>>
    ELSE /\ enter_batch(b, TRUE)
         /\ UNCHANGED <<kept_file, rem_file, kept_buf, rem_buf, drop_error>>

\* The body of the write loop for one record and its paired result, the
\* write returning Ok.
route(rec, matched) ==
    IF matched
    THEN \E out \in write_to(rem_w, rem_sink, rem_buf, rem_file, rec) :
             /\ removed' = removed + 1
             /\ rem_sink' = Append(rem_sink, rec)
             /\ rem_buf' = out.len
             /\ rem_file' = out.file
             /\ UNCHANGED <<kept, kept_sink, kept_buf, kept_file>>
    ELSE \E out \in write_to(kept_w, kept_sink, kept_buf, kept_file, rec) :
             /\ kept' = kept + 1
             /\ kept_sink' = Append(kept_sink, rec)
             /\ kept_buf' = out.len
             /\ kept_file' = out.file
             /\ UNCHANGED <<removed, rem_sink, rem_buf, rem_file>>

\* Mutant: the batch is written back to front.
zip_item_reversed(b, res, k) ==
    [rec |-> b[Len(b) + 1 - k], matched |-> res[Len(b) + 1 - k] = "matched"]

\* Mutant: a record is paired with the result of another position.
zip_item_mispaired(b, res, k) ==
    [rec |-> b[k], matched |-> res[Len(b) + 1 - k] = "matched"]

\* batch.into_iter().zip(results): the k-th pair of the write loop.
zip_item(b, res, k) == [rec |-> b[k], matched |-> res[k] = "matched"]

\* Mutant: the kept increment is lost.
add_counts_removed_only(st, r_inc, k_inc) == [st EXCEPT !.removed = @ + r_inc]

\* stats.1 += r_inc; stats.2 += k_inc
add_counts(st, r_inc, k_inc) ==
    [st EXCEPT !.removed = @ + r_inc, !.kept = @ + k_inc]

\* process_fastq up to the read loop; on a zero-byte input the kept writer
\* is created and dropped at once.
OpenFastq ==
    /\ pc = "start"
    /\ format \in {"fastq", "fastq_gz"}
    /\ IF input_kind = "stat_error" THEN
            /\ pc' = "error"
            /\ UNCHANGED <<kept_file, rem_file, kept_w, rem_w, drop_error>>
       ELSE IF input_kind = "zero_byte" THEN
            /\ \E ok \in BOOLEAN :
                /\ kept_out \/ ok
                /\ \E kd \in drop_outcomes(IF ok THEN create_writer(kept_out, format)
                                           ELSE "None",
                                           <<>>, 0, create_file(kept_out, ok, kept_file)) :
                      /\ kept_file' = kd.file
                      /\ drop_error' = (drop_error \/ kd.lost)
                /\ pc' = IF ok THEN "done" ELSE "error"
            /\ UNCHANGED <<rem_file, kept_w, rem_w>>
       ELSE IF input_kind = "parser_empty" THEN
            /\ pc' = "done"
            /\ UNCHANGED <<kept_file, rem_file, kept_w, rem_w, drop_error>>
       ELSE IF input_kind = "parse_error" THEN
            /\ pc' = "error"
            /\ UNCHANGED <<kept_file, rem_file, kept_w, rem_w, drop_error>>
       ELSE open_writers
    /\ UNCHANGED <<consumed, stats, batch, final, results, widx, removed, kept,
                   kept_sink, rem_sink, kept_buf, rem_buf>>
    /\ UNCHANGED <<matcher_vars, args_vars, cli_vars, write_error>>

\* process_bam up to the read loop.
OpenBam ==
    /\ pc = "start"
    /\ format = "bam"
    /\ IF input_kind = "open_error" THEN
            /\ pc' = "error"
            /\ UNCHANGED <<kept_file, rem_file, kept_w, rem_w, drop_error>>
       ELSE open_writers
    /\ UNCHANGED <<consumed, stats, batch, final, results, widx, removed, kept,
                   kept_sink, rem_sink, kept_buf, rem_buf>>
    /\ UNCHANGED <<matcher_vars, args_vars, cli_vars, write_error>>

\* The reader cannot end before its first record when the file holds records.
stream_may_end == input_kind = "header_only" \/ Len(consumed) >= 1

has_records == input_kind \in {"records", "fasta_records"}

stream_may_continue == has_records /\ Len(consumed) < MaxRecords

\* One iteration of the read loop.
ReadRecord ==
    /\ pc = "read"
    /\ stream_may_continue
    /\ \E r \in StreamRecords(format, input_kind) :
        LET rec == [id |-> Len(consumed) + 1, data |-> r]
            pushed == Append(batch, rec)
        IN  /\ consumed' = Append(consumed, rec)
            /\ stats' = [stats EXCEPT !.total = @ + 1]
            /\ batch' = pushed
            /\ IF batch_is_full(pushed, batch_size)
               THEN enter_batch(pushed, FALSE)
               ELSE UNCHANGED <<results, final, pc>>
    /\ UNCHANGED <<kept_w, rem_w, widx, removed, kept, kept_sink, rem_sink,
                   kept_file, rem_file, kept_buf, rem_buf, drop_error>>
    /\ UNCHANGED <<matcher_vars, args_vars, cli_vars, write_error>>

\* The reader yields Some(Err): `record?` returns the error.
ReadFail ==
    /\ pc = "read"
    /\ has_records
    /\ pc' = "error"
    /\ drop_writers
    /\ UNCHANGED <<consumed, stats, batch, kept_w, rem_w, final, results, widx,
                   removed, kept, kept_sink, rem_sink>>
    /\ UNCHANGED <<matcher_vars, args_vars, cli_vars, write_error>>

\* The reader returns None: the final flush.
EndOfStream ==
    /\ pc = "read"
    /\ stream_may_end
    /\ final_flush(batch)
    /\ UNCHANGED <<consumed, stats, batch, kept_w, rem_w, widx, removed, kept,
                   kept_sink, rem_sink>>
    /\ UNCHANGED <<matcher_vars, args_vars, cli_vars, write_error>>

\* One worker of the parallel map runs the closure on record i of the
\* batch; a panic of the closure is caught on the worker.
Classify(i) ==
    /\ pc = "compute"
    /\ results[i] = "pending"
    /\ results' = [results EXCEPT ![i] = classify(batch[i], max_m, umi_len)]
    /\ UNCHANGED <<consumed, stats, batch, kept_w, rem_w, final, widx, removed, kept,
                   kept_sink, rem_sink, kept_file, rem_file, kept_buf, rem_buf,
                   drop_error, pc>>
    /\ UNCHANGED <<matcher_vars, args_vars, cli_vars, write_error>>

some_panicked == \E i \in 1..Len(batch) : results[i] = "panic"

\* collect() resumes a caught panic on the caller once the workers are
\* idle (closures not yet started need not run): the unwinding leaves
\* process_fastq / process_bam and drops the writers.
ResumePanic ==
    /\ pc = "compute"
    /\ some_panicked
    /\ pc' = "panicked"
    /\ drop_writers
    /\ UNCHANGED <<consumed, stats, batch, kept_w, rem_w, final, results, widx,
                   removed, kept, kept_sink, rem_sink>>
    /\ UNCHANGED <<matcher_vars, args_vars, cli_vars, write_error>>

\* Mutant: the write loop starts without waiting for the workers.
Join_without_barrier ==
    /\ pc = "compute"
    /\ pc' = "write"
    /\ widx' = 1
    /\ removed' = 0
    /\ kept' = 0
    /\ UNCHANGED <<consumed, stats, batch, kept_w, rem_w, final, results,
                   kept_sink, rem_sink, kept_file, rem_file, kept_buf, rem_buf,
                   drop_error>>
    /\ UNCHANGED <<matcher_vars, args_vars, cli_vars, write_error>>

\* collect(): every worker is done, the serial write loop starts.
Join ==
    /\ pc = "compute"
    /\ \A i \in 1..Len(batch) : results[i] \in {"matched", "unmatched"}
    /\ pc' = "write"
    /\ widx' = 1
    /\ removed' = 0
    /\ kept' = 0
    /\ UNCHANGED <<consumed, stats, batch, kept_w, rem_w, final, results,
                   kept_sink, rem_sink, kept_file, rem_file, kept_buf, rem_buf,
                   drop_error>>
    /\ UNCHANGED <<matcher_vars, args_vars, cli_vars, write_error>>

\* One iteration of the write loop, write_to returning Ok.
WriteRecord ==
    /\ pc = "write"
    /\ widx <= Len(batch)
    /\ LET item == zip_item(batch, results, widx)
       IN  route(item.rec, item.matched)
    /\ widx' = widx + 1
    /\ UNCHANGED <<consumed, stats, batch, kept_w, rem_w, final, results, pc,
                   drop_error>>
    /\ UNCHANGED <<matcher_vars, args_vars, cli_vars, write_error>>

\* One iteration of the write loop, write_to returning Err: the counter is
\* already incremented, `?` returns the error out of process_batch and out
\* of the run, and the writers are dropped.
WriteFail ==
    /\ pc = "write"
    /\ widx <= Len(batch)
    /\ LET item == zip_item(batch, results, widx)
       IN  IF item.matched
           THEN /\ write_may_fail(rem_w, rem_sink, rem_buf, item.rec)
                /\ removed' = removed + 1
                /\ rem_file' \in failed_write_outcomes(rem_w, rem_sink, rem_buf,
                                                       rem_file, item.rec)
                /\ \E kd \in drop_outcomes(kept_w, kept_sink, kept_buf, kept_file) :
                      /\ kept_file' = kd.file
                      /\ drop_error' = (drop_error \/ kd.lost)
                /\ UNCHANGED kept
           ELSE /\ write_may_fail(kept_w, kept_sink, kept_buf, item.rec)
                /\ kept' = kept + 1
                /\ kept_file' \in failed_write_outcomes(kept_w, kept_sink, kept_buf,
                                                        kept_file, item.rec)
                /\ \E rd \in drop_outcomes(rem_w, rem_sink, rem_buf, rem_file) :
                      /\ rem_file' = rd.file
                      /\ drop_error' = (drop_error \/ rd.lost)
                /\ UNCHANGED removed
    /\ kept_buf' = 0
    /\ rem_buf' = 0
    /\ pc' = "error"
    /\ write_error' = TRUE
    /\ UNCHANGED <<consumed, stats, batch, kept_w, rem_w, final, results, widx,
                   kept_sink, rem_sink>>
    /\ UNCHANGED <<matcher_vars, args_vars, cli_vars>>

\* process_batch returns Ok((removed, kept)); the caller adds it to stats
\* and, after the final flush, returns Ok(stats).
ReturnBatch ==
    /\ pc = "write"
    /\ widx > Len(batch)
    /\ stats' = add_counts(stats, removed, kept)
    /\ batch' = <<>>
    /\ IF final
       THEN pc' = "done" /\ drop_writers
       ELSE /\ pc' = "read"
            /\ UNCHANGED <<kept_file, rem_file, kept_buf, rem_buf, drop_error>>
    /\ UNCHANGED <<consumed, kept_w, rem_w, final, results, widx, removed, kept,
                   kept_sink, rem_sink>>
    /\ UNCHANGED <<matcher_vars, args_vars, cli_vars, write_error>>

(***************************************************************************)
(* main.rs: FileType and the output paths                                  *)
(***************************************************************************)
\* A path is the sequence of its characters; an Option<PathBuf> is a
\* sequence holding no path or one.
DotFq == <<".", "f", "q">>
DotFastq == <<".", "f", "a", "s", "t", "q">>
DotGz == <<".", "g", "z">>
DotBam == <<".", "b", "a", "m">>
DotSam == <<".", "s", "a", "m">>
DotRemoved == <<".", "r", "e", "m", "o", "v", "e", "d">>
DotFqUpper == <<".", "F", "Q">>

ends_with(s, suf) ==
    Len(s) >= Len(suf) /\ SubSeq(s, Len(s) - Len(suf) + 1, Len(s)) = suf

\* str::trim_end_matches: the suffix is removed as often as it repeats.
RECURSIVE trim_end_matches(_, _)
trim_end_matches(s, suf) ==
    IF ends_with(s, suf)
    THEN trim_end_matches(SubSeq(s, 1, Len(s) - Len(suf)), suf)
    ELSE s

\* to_lowercase on the letters of the model's paths.
to_lowercase(s) ==
    [i \in 1..Len(s) |->
        CASE s[i] = "F" -> "f"
          [] s[i] = "Q" -> "q"
          [] OTHER -> s[i]]

\* Path::file_name: the last component of the path when it is a normal one.
\* The components are the pieces between separators; empty pieces (a
\* repeated or trailing separator) and "." pieces are skipped, so the name
\* of "x.fq/." is "x.fq". There is none when no piece is left (the empty
\* path, ".", "/") or when the last one is "..".
file_name(path) ==
    LET seps == {0} \cup {i \in 1..Len(path) : path[i] = "/"}
        next_sep(s) ==
            LET later == {t \in seps : t > s}
            IN  IF later = {} THEN Len(path) + 1
                ELSE CHOOSE t \in later : \A u \in later : t <= u
        piece(s) == SubSeq(path, s + 1, next_sep(s) - 1)
        named == {s \in seps : piece(s) # <<>> /\ piece(s) # <<".">>}
        last == piece(CHOOSE s \in named : \A t \in named : t <= s)
    IN  IF named = {} THEN <<>>
        ELSE IF last = <<".", ".">> THEN <<>>
        ELSE <<last>>

\* FileType::from_path; "Invalid" and "Unsupported" are its two errors.
from_path(path) ==
    LET fname == to_lowercase(file_name(path)[1])
    IN  IF file_name(path) = <<>> THEN "Invalid"
        ELSE IF ends_with(fname, DotFq \o DotGz) \/ ends_with(fname, DotFastq \o DotGz)
        THEN "FastqGz"
        ELSE IF ends_with(fname, DotFq) \/ ends_with(fname, DotFastq) THEN "Fastq"
        ELSE IF ends_with(fname, DotBam) THEN "Bam"
        ELSE IF ends_with(fname, DotSam) THEN "Sam"
        ELSE "Unsupported"

suffix_info(ft) ==
    CASE ft = "Fastq" ->
            [suffix |-> <<"f", "q">>, candidates |-> <<DotFq, DotFastq>>]
      [] ft = "FastqGz" ->
            [suffix |-> <<"f", "q">> \o DotGz,
             candidates |-> <<DotFq \o DotGz, DotFastq \o DotGz>>]
      [] ft = "Bam" -> [suffix |-> <<"b", "a", "m">>, candidates |-> <<DotBam>>]
      [] ft = "Sam" -> [suffix |-> <<"s", "a", "m">>, candidates |-> <<DotSam>>]

\* (matched_path, removed_path) for a prefix.
build_output_paths(ft, out_prefix) ==
    LET info == suffix_info(ft)
        hits == {k \in 1..Len(info.candidates) : ends_with(out_prefix, info.candidates[k])}
        first == CHOOSE k \in hits : \A j \in hits : k <= j
        base == IF hits = {} THEN out_prefix
                ELSE trim_end_matches(out_prefix, info.candidates[first])
    IN  <<base \o <<".">> \o info.suffix,
          base \o DotRemoved \o <<".">> \o info.suffix>>

\* run, from the file type to the output paths.
BuildPaths ==
    /\ cpc = "paths"
    /\ file_type' = from_path(args_input)
    /\ IF file_type' \in {"Invalid", "Unsupported"}
       THEN cpc' = "bailed" /\ UNCHANGED <<clean_output, removed_output>>
       ELSE /\ cpc' = "built"
            /\ IF args_output # <<>>
               THEN LET paths == build_output_paths(file_type', args_output[1])
                    IN  /\ clean_output' = <<paths[1]>>
                        /\ removed_output' = <<paths[2]>>
               ELSE clean_output' = <<>> /\ removed_output' = <<>>
    /\ UNCHANGED <<args_input, args_output, summary>>
    /\ UNCHANGED <<matcher_vars, args_vars, run_vars>>

(***************************************************************************)
(* main.rs: the summary line of run                                        *)
(***************************************************************************)
\* f64 arithmetic of the percentages.  A positive finite f64 is a mantissa
\* of F64_MANTISSA_BITS bits (most significant first, the first one set)
\* and the exponent of its last bit.
F64_MANTISSA_BITS == 53

zero_bits(n) == [i \in 1..n |-> 0]

\* The number of binary digits of n.
bit_width(n) == CHOOSE w \in 0..31 : n < 2^w /\ \A v \in 0..(w - 1) : n >= 2^v

\* The w binary digits of n < 2^w, most significant first.
bits_of(n, w) == [i \in 1..w |-> (n \div 2^(w - i)) % 2]

to_bits(n) == bits_of(n, bit_width(n))

\* The number whose binary digits are bits.
RECURSIVE bits_value(_)
bits_value(bits) ==
    IF Len(bits) = 0 THEN 0
    ELSE IF Len(bits) = 1 THEN bits[1]
    ELSE LET half == Len(bits) \div 2
         IN  bits_value(SubSeq(bits, 1, half)) * 2^(Len(bits) - half)
                 + bits_value(SubSeq(bits, half + 1, Len(bits)))

any_set(bits) == \E i \in 1..Len(bits) : bits[i] = 1

\* bits + 1, one bit longer when every bit was set.
increment(bits) ==
    LET zeros == {i \in 1..Len(bits) : bits[i] = 0}
    IN  IF zeros = {} THEN <<1>> \o zero_bits(Len(bits))
        ELSE LET last == CHOOSE i \in zeros : \A j \in zeros : j <= i
             IN  [i \in 1..Len(bits) |->
                    IF i < last THEN bits[i] ELSE IF i = last THEN 1 ELSE 0]

\* mant * k for a mantissa of F64_MANTISSA_BITS bits and 0 < k < 2^10,
\* computed on three limbs of the mantissa.
mantissa_times(mant, k) ==
    LET n == F64_MANTISSA_BITS
        limb == 20
        base == 2^limb
        low == bits_value(SubSeq(mant, n - limb + 1, n)) * k
        mid == bits_value(SubSeq(mant, n - 2 * limb + 1, n - limb)) * k + low \div base
        high == bits_value(SubSeq(mant, 1, n - 2 * limb)) * k + mid \div base
    IN  to_bits(high) \o bits_of(mid % base, limb) \o bits_of(low % base, limb)

\* Rounding to the nearest, ties to even, of the number bits * 2^exp whose
\* discarded part is not zero iff sticky: the f64 nearest to it.
round_f64(bits, exp, sticky) ==
    LET n == Len(bits)
    IN  IF n <= F64_MANTISSA_BITS
        THEN [mant |-> bits \o zero_bits(F64_MANTISSA_BITS - n),
              exp |-> exp - (F64_MANTISSA_BITS - n)]
        ELSE LET top == SubSeq(bits, 1, F64_MANTISSA_BITS)
                 guard == bits[F64_MANTISSA_BITS + 1]
                 rest == sticky \/ any_set(SubSeq(bits, F64_MANTISSA_BITS + 2, n))
                 up == guard = 1 /\ (rest \/ top[F64_MANTISSA_BITS] = 1)
                 m == IF up THEN increment(top) ELSE top
                 e == exp + (n - F64_MANTISSA_BITS)
             IN  IF Len(m) > F64_MANTISSA_BITS
                 THEN [mant |-> SubSeq(m, 1, F64_MANTISSA_BITS), exp |-> e + 1]
                 ELSE [mant |-> m, exp |-> e]

\* The next n bits of rem / den for 0 <= rem < den < 2^30, and the
\* remainder left; at most step bits are taken in one division, with
\* den * 2^step <= 2^30.
RECURSIVE quotient_bits(_, _, _, _)
quotient_bits(rem, den, n, step) ==
    IF n <= step
    THEN [bits |-> bits_of((rem * 2^n) \div den, n), rem |-> (rem * 2^n) % den]
    ELSE LET first == quotient_bits(rem, den, n \div 2, step)
             second == quotient_bits(first.rem, den, n - n \div 2, step)
         IN  [bits |-> first.bits \o second.bits, rem |-> second.rem]

\* The least k with num * 2^k >= den, for 0 < num <= den.
shift_to(num, den) ==
    CHOOSE k \in 0..30 : num * 2^k >= den /\ (k > 0 => num * 2^(k - 1) < den)

\* count as f64 / total as f64, for 0 < count <= total < 2^30.
f64_div(count, total) ==
    LET k == shift_to(count, total)
        step == IF bit_width(total) < 30 THEN 30 - bit_width(total) ELSE 1
        q == quotient_bits(count * 2^k - total, total, F64_MANTISSA_BITS, step)
    IN  round_f64(<<1>> \o q.bits, -k - F64_MANTISSA_BITS, q.rem # 0)

\* x * 100.0
f64_times_100(x) == round_f64(mantissa_times(x.mant, 100), x.exp, FALSE)

\* {:.2} of x, in hundredths: the decimal expansion of x cut after two
\* digits, rounded to the nearest, an exact tie going to the even digit.
format_2(x) ==
    LET scaled == mantissa_times(x.mant, 100)
        frac_len == -x.exp
        padded == zero_bits(frac_len - Len(scaled)) \o scaled
        whole == bits_value(SubSeq(padded, 1, Len(padded) - frac_len))
        frac == SubSeq(padded, Len(padded) - frac_len + 1, Len(padded))
        half == frac # <<>> /\ frac[1] = 1
        above == half /\ any_set(Tail(frac))
    IN  IF above \/ (half /\ whole % 2 = 1) THEN whole + 1 ELSE whole

\* (count as f64 / total as f64) * 100.0 printed with {:.2}, in hundredths
\* of a percent, for count <= total < 2^30; 0.0 when total is 0, and
\* 0 as f64 / total is 0.0.
percent(count, total) ==
    IF total > 0 /\ count > 0
    THEN format_2(f64_times_100(f64_div(count, total)))
    ELSE 0

\* Mutant: the two counts of the returned tuple are taken in the other order.
summary_fields_kept_first(path, st) ==
    <<IF file_name(path) # <<>> THEN file_name(path)[1] ELSE path,
      st.total, st.kept, percent(st.kept, st.total),
      st.removed, percent(st.removed, st.total)>>

\* let (total, with_umi, without_umi) = the returned (stats.0, stats.1, stats.2);
\* the tab-separated fields of the summary line: fname, total, with_umi,
\* perc_with, without_umi, perc_without (the line "Elapsed" that --verbose
\* adds after it is left out).
summary_fields(path, st) ==
    LET total == st.total
        with_umi == st.removed
        without_umi == st.kept
        fname == IF file_name(path) # <<>> THEN file_name(path)[1] ELSE path
    IN  <<fname, total, with_umi, percent(with_umi, total),
          without_umi, percent(without_umi, total)>>

\* run after process_fastq / process_bam returned Ok: it passes both output
\* paths or none.
Summarize ==
    /\ pc = "done"
    /\ summary = <<>>
    /\ kept_out = rem_out
    /\ summary' = summary_fields(args_input, stats)
    /\ UNCHANGED <<args_input, args_output, file_type, clean_output, removed_output, cpc>>
    /\ UNCHANGED <<matcher_vars, args_vars, run_vars>>

(***************************************************************************)
(* Matcher calls                                                           *)
(***************************************************************************)
hamming_distance_call ==
    /\ mpc = "hamming"
    /\ Len(seq1) = Len(seq2)
    /\ distance' = hamming_distance(seq1, seq2)
    /\ mpc' = "hamming_returned"
    /\ UNCHANGED <<seq1, seq2, umi, read, max_mismatches, found>>
    /\ UNCHANGED <<args_vars, run_vars, cli_vars>>

is_umi_in_read_call ==
    /\ mpc = "umi"
    /\ IF windows_panics(umi, read)
       THEN mpc' = "umi_panicked" /\ found' = found
       ELSE /\ found' = is_umi_in_read(umi, read, max_mismatches)
            /\ mpc' = "umi_returned"
    /\ UNCHANGED <<seq1, seq2, distance, umi, read, max_mismatches>>
    /\ UNCHANGED <<args_vars, run_vars, cli_vars>>

(***************************************************************************)
(* Specifications                                                          *)
(***************************************************************************)
MatcherIdle ==
    /\ seq1 = <<>> /\ seq2 = <<>> /\ distance = 0
    /\ umi = <<>> /\ read = <<>> /\ max_mismatches = 0 /\ found = FALSE

RunIdle ==
    /\ format = "fastq" /\ input_kind = "records"
    /\ kept_out = FALSE /\ rem_out = FALSE
    /\ max_m = 0 /\ umi_len = 2 /\ batch_size = 1
    /\ consumed = <<>>
    /\ stats = [total |-> 0, removed |-> 0, kept |-> 0]
    /\ batch = <<>>
    /\ kept_w = "None" /\ rem_w = "None"
    /\ final = FALSE
    /\ results = <<>>
    /\ widx = 1 /\ removed = 0 /\ kept = 0
    /\ kept_sink = <<>> /\ rem_sink = <<>>
    /\ kept_file = AbsentFile /\ rem_file = AbsentFile
    /\ kept_buf = 0 /\ rem_buf = 0
    /\ drop_error = FALSE
    /\ write_error = FALSE

CliIdle ==
    /\ args_input = <<>> /\ args_output = <<>>
    /\ file_type = "None"
    /\ clean_output = <<>> /\ removed_output = <<>>
    /\ summary = <<>>

\* The pipeline: one call of process_fastq or process_bam.
Init ==
    /\ MatcherIdle /\ mpc = "off"
    /\ format \in PipelineFormats
    /\ input_kind \in InputKinds(format)
    /\ kept_out \in BOOLEAN /\ rem_out \in BOOLEAN
    /\ max_m \in PipelineMismatches
    /\ umi_len \in PipelineUmiLens
    /\ batch_size \in 1..MaxBatchSize
    /\ consumed = <<>>
    /\ stats = [total |-> 0, removed |-> 0, kept |-> 0]
    /\ batch = <<>>
    /\ kept_w = "None" /\ rem_w = "None"
    /\ final = FALSE
    /\ results = <<>>
    /\ widx = 1 /\ removed = 0 /\ kept = 0
    /\ kept_sink = <<>> /\ rem_sink = <<>>
    /\ kept_file = AbsentFile /\ rem_file = AbsentFile
    /\ kept_buf = 0 /\ rem_buf = 0
    /\ drop_error = FALSE
    /\ write_error = FALSE
    /\ pc = "start"
    /\ args_input = InputPath(format) /\ args_output = <<>>
    /\ file_type = "None"
    /\ clean_output = <<>> /\ removed_output = <<>>
    /\ summary = <<>>
    /\ cpc = "off"

Next ==
    \/ OpenFastq
    \/ OpenBam
    \/ ReadRecord
    \/ ReadFail
    \/ EndOfStream
    \/ \E i \in 1..MaxBatchSize : i <= Len(batch) /\ Classify(i)
    \/ ResumePanic
    \/ Join
    \/ WriteRecord
    \/ WriteFail
    \/ ReturnBatch
    \/ Summarize

Spec == Init /\ [][Next]_vars

\* hamming_distance on bounded inputs.
InitHamming ==
    /\ RunIdle /\ pc = "off"
    /\ CliIdle /\ cpc = "off"
    /\ umi = <<>> /\ read = <<>> /\ max_mismatches = 0 /\ found = FALSE
    /\ \E p \in 0..MaxPad, q \in 0..MaxPad, v \in HammingInputs :
           /\ seq1 = Fill(p) \o v[1] \o Fill(q)
           /\ seq2 = Fill(p) \o v[2] \o Fill(q)
    /\ distance = 0
    /\ mpc = "hamming"

NextHamming == hamming_distance_call

SpecHamming == InitHamming /\ [][NextHamming]_vars

\* is_umi_in_read on bounded inputs.
InitUmi ==
    /\ RunIdle /\ pc = "off"
    /\ CliIdle /\ cpc = "off"
    /\ seq1 = <<>> /\ seq2 = <<>> /\ distance = 0
    /\ umi \in SeqsOf(UmiAlphabet, 0, MaxUmiLen)
    /\ read \in SeqsOf(UmiAlphabet, 0, MaxReadLen)
    /\ max_mismatches \in 0..MaxAllowedMismatches
    /\ found = FALSE
    /\ mpc = "umi"

NextUmi == is_umi_in_read_call

SpecUmi == InitUmi /\ [][NextUmi]_vars

\* Paths of the CLI: a stem followed by up to MaxSuffixes suffix pieces.
PathStems == {<<"x">>, <<"d", "/", "y">>, <<".">>}

\* A trailing "." component, which Path::file_name skips.
SlashDot == <<"/", ".">>

SuffixPieces == {DotFq, DotFastq, DotGz, DotBam, DotSam, DotRemoved, DotFqUpper, SlashDot}

RECURSIVE WithSuffixes(_, _)
WithSuffixes(paths, n) ==
    IF n = 0 THEN paths
    ELSE paths \cup WithSuffixes({p \o e : p \in paths, e \in SuffixPieces}, n - 1)

PathPool == WithSuffixes(PathStems, MaxSuffixes)

\* run on bounded paths, up to the output paths.
InitPaths ==
    /\ MatcherIdle /\ mpc = "off"
    /\ RunIdle /\ pc = "off"
    /\ args_input \in PathPool
    /\ args_output \in {<<>>} \cup {<<p>> : p \in PathPool}
    /\ file_type = "None"
    /\ clean_output = <<>> /\ removed_output = <<>>
    /\ summary = <<>>
    /\ cpc = "paths"

NextPaths == BuildPaths

SpecPaths == InitPaths /\ [][NextPaths]_vars

(***************************************************************************)
(* Properties                                                              *)
(***************************************************************************)
is_ambiguous(b) == b \in {ByteOf.N, ByteOf.n}

\* The documented distance: positions that differ or hold N/n on either side.
documented_distance(a, b) ==
    Cardinality({i \in 1..Len(a) : a[i] # b[i] \/ is_ambiguous(a[i]) \/ is_ambiguous(b[i])})

window_within(u, r, mm) ==
    \E w \in 1..(Len(r) - Len(u) + 1) :
        documented_distance(u, window(r, w, Len(u))) <= mm

\* C1: is_umi_in_read returns true iff some window of the read of the umi's
\* length is within max_mismatches of the umi under the documented distance
\* (so an N on either side disqualifies a window at max_mismatches = 0).
C1_FoundIffWindowWithinTolerance ==
    mpc = "umi_returned" => (found <=> window_within(umi, read, max_mismatches))

\* C2: a match at max_mismatches is still a match at every larger tolerance.
C2_MonotonicRelaxation ==
    (mpc = "umi_returned" /\ found) =>
        \A m2 \in max_mismatches..MaxAllowedMismatches : is_umi_in_read(umi, read, m2)

\* C3: hamming_distance counts the positions that differ or hold N or n in
\* either sequence, in the word path and in the tail.
C3_DistanceCountsAmbiguous ==
    mpc = "hamming_returned" => distance = documented_distance(seq1, seq2)

\* C4: the word-parallel distance equals the per-byte loop of the tail
\* applied to every position.
C4_WordPathEqualsByteLoop ==
    mpc = "hamming_returned" => distance = tail_distance(seq1, seq2, 1)

\* C5: a run that returns Ok has total = kept + removed.
C5_TotalIsKeptPlusRemoved ==
    pc = "done" => stats.total = stats.kept + stats.removed

C5_Witness ==
    /\ pc = "done"
    /\ batch_size = 2 /\ stats.total = 3
    /\ stats.kept >= 1 /\ stats.removed >= 1

is_matched(rec) == classify(rec, max_m, umi_len) = "matched"

is_unmatched(rec) == ~is_matched(rec)

\* The routing of the stream record by record, with no batching.
unbatched_removed == SelectSeq(consumed, is_matched)

unbatched_kept == SelectSeq(consumed, is_unmatched)

\* C6: the statistics and the content of both sinks (the records each
\* writer was handed, in order) of a completed run are those of the
\* record-by-record routing of the stream, in which batch_size does not
\* occur: they are the same for any two batch sizes.
C6_BatchingTransparent ==
    pc = "done" =>
        /\ stats = [total |-> Len(consumed), removed |-> Len(unbatched_removed),
                    kept |-> Len(unbatched_kept)]
        /\ kept_sink = unbatched_kept
        /\ rem_sink = unbatched_removed

C6_Witness ==
    /\ pc = "done"
    /\ batch_size = 2 /\ Len(consumed) = 3
    /\ Len(kept_sink) = 2 /\ Len(rem_sink) = 1
    /\ kept_sink[2].id = 3

occurrences(s, rec) == Cardinality({i \in 1..Len(s) : s[i] = rec})

\* C7: in a completed run every record read is handed to exactly one sink,
\* exactly once: the removed sink iff its UMI is found in its sequence; the
\* counters count what each sink received.
C7_EachRecordRoutedOnce ==
    pc = "done" =>
        /\ \A k \in 1..Len(consumed) :
              /\ occurrences(rem_sink, consumed[k]) + occurrences(kept_sink, consumed[k]) = 1
              /\ occurrences(rem_sink, consumed[k]) = 1 <=> is_matched(consumed[k])
        /\ Len(rem_sink) + Len(kept_sink) = Len(consumed)
        /\ stats.removed = Len(rem_sink)
        /\ stats.kept = Len(kept_sink)

C7_Witness ==
    /\ pc = "done"
    /\ batch_size = 2 /\ Len(consumed) = 3
    /\ is_matched(consumed[1]) /\ ~is_matched(consumed[2])
    /\ rem_sink = <<consumed[1], consumed[3]>>
    /\ kept_sink = <<consumed[2]>>

in_input_order(s) == \A i, j \in 1..Len(s) : i < j => s[i].id < s[j].id

\* C8: at every point of a run, each sink holds its records in the order
\* in which they were read, whatever order the workers finish in.
C8_SinksInInputOrder ==
    /\ in_input_order(kept_sink)
    /\ in_input_order(rem_sink)

C8_Witness ==
    /\ batch_size = 2
    /\ Len(kept_sink) = 2
    /\ Len(rem_sink) = 1
    /\ kept_sink[1].id = 1 /\ kept_sink[2].id = 3
    /\ rem_sink[1].id = 2

\* A header that yields no UMI token: invalid UTF-8, empty, or with no ':'
\* or '_' delimiter followed by a token.
yields_no_token(header) ==
    \/ ~from_utf8_ok(header)
    \/ first_word(header) = <<>>
    \/ \A i \in 1..Len(first_word(header)) :
            first_word(header)[i] \notin {ByteOf.colon, ByteOf.underscore}
    \/ last_piece(first_word(header)) = <<>>

\* C9: a record whose header yields no UMI token is never routed to the
\* removed sink and never makes the run fail.
C9_MalformedHeaderKept ==
    /\ \A i \in 1..Len(rem_sink) : ~yields_no_token(head_of(rem_sink[i]))
    /\ pc = "panicked" =>
          \A i \in 1..Len(batch) :
              yields_no_token(head_of(batch[i])) =>
                  classify(batch[i], max_m, umi_len) # "panic"

\* C10: a call on an input with zero records whose requested outputs can be
\* created returns (0, 0, 0) and leaves an empty kept artifact whenever a kept
\* output was requested.
C10_EmptyInputCreatesKept ==
    (input_kind \in {"zero_byte", "parser_empty", "header_only"}
        /\ pc \notin {"start", "read"}) =>
        /\ pc \in {"done", "error"}
        /\ pc = "error" =>
               \/ kept_out /\ ~kept_file.exists
               \/ rem_out /\ ~rem_file.exists
        /\ pc = "done" =>
               /\ stats = [total |-> 0, removed |-> 0, kept |-> 0]
               /\ kept_out => kept_file = CreatedFile

\* C11 as stated: the count printed right after the total is the number of
\* records routed to the kept sink, the later count the number removed.
C11_SummaryKeptFirst ==
    summary # <<>> =>
        /\ summary[3] = Len(kept_sink)
        /\ summary[5] = Len(rem_sink)

\* count / total as a percentage with two decimals: hundredths differs from
\* the exact value by no more than half a hundredth; 0.00 when total is 0.
two_decimals(hundredths, count, total) ==
    IF total = 0 THEN hundredths = 0
    ELSE /\ 2 * (hundredths * total - 10000 * count) <= total
         /\ 2 * (10000 * count - hundredths * total) <= total

\* C11 amended: the summary lists the source name, total, removed count
\* (UMI found), removed percentage, kept count, kept percentage, in the
\* order of the returned tuple (total, removed, kept).
C11_SummaryRemovedFirst ==
    summary # <<>> =>
        /\ Len(summary) = 6
        /\ summary[1] = file_name(args_input)[1]
        /\ summary[2] = Len(consumed)
        /\ summary[3] = Len(rem_sink) /\ summary[3] = stats.removed
        /\ summary[5] = Len(kept_sink) /\ summary[5] = stats.kept
        /\ two_decimals(summary[4], Len(rem_sink), Len(consumed))
        /\ two_decimals(summary[6], Len(kept_sink), Len(consumed))

C11_Witness ==
    /\ summary # <<>>
    /\ Len(rem_sink) = 2 /\ Len(kept_sink) = 1
    /\ summary = <<<<"x", ".", "f", "q">>, 3, 2, 6667, 1, 3333>>

contains_substring(r, u) ==
    \E w \in 1..(Len(r) - Len(u) + 1) :
        \A i \in 1..Len(u) : r[w + i - 1] = u[i]

\* C12: is_umi_in_read(umi, read, 0) is true iff the read contains the umi
\* as an exact contiguous byte substring, for every umi and read; a read
\* shorter than the umi gives false.
C12_ZeroMismatchIsSubstring ==
    (mpc \in {"umi_returned", "umi_panicked"} /\ max_mismatches = 0) =>
        /\ mpc = "umi_returned"
        /\ found <=> contains_substring(read, umi)
        /\ Len(read) < Len(umi) => ~found

\* b is a with the byte at exactly one position replaced by a different,
\* non-ambiguous byte.
replaced_at(a, b, i) ==
    /\ i \in 1..Len(a)
    /\ a[i] # b[i]
    /\ ~is_ambiguous(b[i])
    /\ \A j \in 1..Len(a) : j # i => a[j] = b[j]

\* C13, for a position of a that holds a non-ambiguous byte: replacing it
\* by a different non-ambiguous byte raises the distance by exactly one
\* over hamming_distance(a, a), in a word and in the tail.
C13_ReplacementAddsOne ==
    mpc = "hamming_returned" =>
        \A i \in 1..Len(seq1) :
            (replaced_at(seq1, seq2, i) /\ ~is_ambiguous(seq1[i])) =>
                distance = hamming_distance(seq1, seq1) + 1

written == Len(kept_sink) + Len(rem_sink)

\* The header is valid UTF-8, has a first word, and the piece of that word
\* after its last ':' or '_' does not have the expected length.
token_length_differs(rec, ulen) ==
    /\ \A i \in 1..Len(head_of(rec)) : head_of(rec)[i] < 128
    /\ \E i \in 1..Len(head_of(rec)) : ~is_whitespace(head_of(rec)[i])
    /\ Len(last_piece(first_word(head_of(rec)))) # ulen

\* C14: a run that read a record whose token has the wrong length returns no
\* statistics and prints no summary, wherever the record sits; such a record
\* reaches neither sink; and a panicked run does nothing more.
C14_WrongLengthTokenIsFatal ==
    /\ (pc = "done" \/ summary # <<>>) =>
           \A k \in 1..Len(consumed) : ~token_length_differs(consumed[k], umi_len)
    /\ \A k \in 1..Len(kept_sink) : ~token_length_differs(kept_sink[k], umi_len)
    /\ \A k \in 1..Len(rem_sink) : ~token_length_differs(rem_sink[k], umi_len)
    /\ pc = "panicked" =>
           /\ summary = <<>>
           /\ \/ \E k \in 1..Len(batch) : token_length_differs(batch[k], umi_len)
              \/ umi_len = 0

C14_Witness ==
    /\ pc = "panicked"
    /\ batch_size = 1 /\ Len(consumed) = 3
    /\ Len(kept_sink) = 1 /\ Len(rem_sink) = 1
    /\ token_length_differs(consumed[3], umi_len)
    /\ umi_len = 2

\* C15: a channel whose output path is absent takes every record routed to
\* it, persists nothing and never fails a write; the counters count the
\* records routed to each channel, and the statistics of a completed run
\* are those of the routing of the stream, whichever outputs were requested.
C15_AbsentOutputDiscards ==
    /\ ~kept_out => kept_file = AbsentFile
    /\ ~rem_out => rem_file = AbsentFile
    /\ write_error =>
           IF zip_item(batch, results, widx).matched THEN rem_out ELSE kept_out
    /\ pc = "write" => removed + kept = widx - 1
    /\ pc = "done" =>
           /\ stats.total = Len(consumed)
           /\ stats.removed = Cardinality({k \in 1..Len(consumed) : is_matched(consumed[k])})
           /\ stats.kept = Cardinality({k \in 1..Len(consumed) : is_unmatched(consumed[k])})
           /\ stats.removed = Len(rem_sink)
           /\ stats.kept = Len(kept_sink)

C15_Witness ==
    /\ pc = "done"
    /\ ~kept_out /\ rem_out
    /\ stats.kept >= 2 /\ stats.removed >= 1
    /\ Len(kept_sink) >= 2
    /\ kept_file = AbsentFile
    /\ kept_w = "Sink"

all_classified == \A i \in 1..Len(batch) : results[i] \in {"matched", "unmatched"}

\* The records read and not yet written are those of the one current batch.
one_batch_in_flight ==
    /\ pc \in {"read", "compute"} => written + Len(batch) = Len(consumed)
    /\ pc = "write" => written + Len(batch) = Len(consumed) + (widx - 1)

fork_join_step ==
    /\ (kept_sink' # kept_sink \/ rem_sink' # rem_sink) =>
           pc = "write" /\ all_classified
    /\ pc = "compute" => UNCHANGED <<kept_sink, rem_sink, stats>>
    /\ (pc = "compute" /\ pc' # "panicked") =>
           UNCHANGED <<kept_file, rem_file, kept_buf, rem_buf>>
    /\ results' # results /\ pc = "compute" => UNCHANGED <<removed, kept>>
    /\ consumed' # consumed => pc = "read" /\ written + Len(batch) = Len(consumed)
    /\ (pc # "compute" /\ pc' = "compute") =>
           written + Len(batch') = Len(consumed')

\* C16: a record is written only after every worker of its batch is done,
\* the compute phase writes nothing and changes no counter, and a record is
\* read or a batch dispatched only when every earlier record is written.
C16_ForkJoinOrdering == []one_batch_in_flight /\ [][fork_join_step]_vars

C16_Witness ==
    /\ pc = "write"
    /\ batch_size = 1 /\ Len(consumed) = 3 /\ Len(batch) = 1
    /\ widx = 1
    /\ all_classified
    /\ written = 2

\* A write to a file has failed: in a write_to call, or in the flush of a
\* writer's buffer when the writer is dropped.
write_failed == write_error \/ drop_error

after_write_failed_step ==
    write_failed =>
        /\ UNCHANGED <<kept_sink, rem_sink, consumed, batch, results>>
        /\ UNCHANGED <<stats, summary>>

\* C17: after a write has failed the run ends in an error, with no
\* statistics returned and no summary, and no later step writes, reads or
\* classifies a record.
C17_WriteFailureAborts ==
    /\ [](write_failed => pc \in {"error", "panicked"} /\ summary = <<>>)
    /\ [][after_write_failed_step]_vars

batch_bounded ==
    /\ Len(batch) <= batch_size
    /\ Len(consumed) - written <= batch_size
    /\ pc = "read" => Len(batch) < batch_size

batch_step ==
    /\ (consumed' # consumed /\ Len(batch') = batch_size) => pc' = "compute"
    /\ (pc = "write" /\ pc' = "read") => batch' = <<>>
    /\ (pc = "read" /\ consumed' = consumed /\ batch = <<>>) =>
           /\ pc' \in {"done", "error"}
           /\ UNCHANGED <<kept_sink, rem_sink>>
           /\ UNCHANGED <<stats, removed, kept>>

\* C19: the batch never exceeds batch_size and at most batch_size records
\* are read and not yet written; a batch is dispatched when it reaches
\* batch_size and replaced by an empty one; the final flush of an empty
\* batch writes nothing and changes no counter.
C19_BatchBounded == []batch_bounded /\ [][batch_step]_vars

C19_Witness ==
    /\ pc = "done"
    /\ batch_size = 1 /\ Len(consumed) = 3
    /\ ~final
    /\ written = 3
    /\ stats.total = 3

\* C20: the two output paths built for a supported input differ from each
\* other and from the input path.
C20_OutputsDifferFromInput ==
    (cpc = "built" /\ args_output # <<>>) =>
        /\ clean_output # removed_output
        /\ clean_output[1] # args_input
        /\ removed_output[1] # args_input

chunk_of(c, ulen, mm) == get_chunk_range(c, ulen \div (mm + 1), mm + 1, ulen)

\* C18: for max_mismatches >= 1 and a umi of at least max_mismatches + 1
\* bytes, the chunks are non-empty, contiguous and cover the umi; every
\* window within max_mismatches has a chunk byte-equal to the umi's; and the
\* result is that of computing the distance on every window.
C18_PigeonholeLosesNoMatch ==
    (mpc = "umi_returned" /\ max_mismatches >= 1 /\ Len(umi) >= max_mismatches + 1) =>
        LET mm == max_mismatches
            ulen == Len(umi)
            starts == 1..(Len(read) - ulen + 1)
        IN  /\ chunk_of(0, ulen, mm)[1] = 0
            /\ chunk_of(mm, ulen, mm)[2] = ulen
            /\ \A c \in 0..mm : chunk_of(c, ulen, mm)[1] < chunk_of(c, ulen, mm)[2]
            /\ \A c \in 0..(mm - 1) :
                   chunk_of(c, ulen, mm)[2] = chunk_of(c + 1, ulen, mm)[1]
            /\ \A w \in starts :
                   hamming_distance(umi, window(read, w, ulen)) <= mm =>
                       has_matching_chunk(umi, window(read, w, ulen),
                                          ulen \div (mm + 1), mm + 1)
            /\ found <=>
                   \E w \in starts : hamming_distance(umi, window(read, w, ulen)) <= mm

C18_Witness ==
    /\ mpc = "umi_returned"
    /\ max_mismatches = 1 /\ Len(umi) = 3 /\ Len(read) = 4
    /\ found
    /\ ~contains_substring(read, umi)
    /\ \E w \in 1..2 : ~has_matching_chunk(umi, window(read, w, 3), 1, 2)

====
